---- MODULE Spec2Model ----
(***************************************************************************)
(* A model of the station finder (src/station_finder/functions.py):        *)
(*   Scenarios.merge_closest_points   (SiteConsolidator.merge)             *)
(*   StationLocator.__init__          (min-max normalisation)              *)
(*   StationLocator.create_network    (WeightedNetworkBuilder.build)       *)
(*   StationLocator.score_locations   (CandidateScorer.score)              *)
(*   StationLocator.get_best_location (GridSearchRanker.rank)              *)
(*   Scenarios.get_size_station       (DemandSizer.size)                   *)
(* Each operation has its own specification (SpecMerge, SpecInit,          *)
(* SpecNetwork, SpecScore, SpecRank, SpecSize); the variables of the other *)
(* operations stay at their idle value.                                    *)
(***************************************************************************)
EXTENDS Integers, Sequences, FiniteSets, TLC

VARIABLES
    \* ---- merge_closest_points
    merge_pc,          \* position in the method
    top_locations,     \* argument: sequence of [pt, score]
    distance_min,      \* argument
    distances,         \* the dict distances, by key i (1-based here)
    dict_order,        \* the key order of the dict distances after line 340
    i_claim,           \* the loop variable i of lines 344-347
    distances_val,     \* the dict distances_val, in insertion order: [key, vals]
    polygones,         \* the result list
    pass,              \* 1: first call, 2: the call fed with the first result
    fed,               \* the result of the first call, once fed back
    \* ---- create_network
    net_pc,            \* position in the method
    road_segments,     \* argument: sequence of geometries
    traffic_values,    \* argument: sequence of traffic values
    k_seg,             \* how many pairs of the zip the loop has consumed
    segment_with_weight, \* the local of that name: <<>> while unbound, else <<geometry>>
    segments,          \* the list segments
    network,           \* the result of unary_union
    net_error,         \* the exception that ended the call, "" if none
    \* ---- the StationLocator object
    obj_pc,            \* "new" before __init__, "constructed" after
    data,              \* the rows of TMJA2019: [TMJA, ratio_PL]
    traffic_only,      \* data.PL_traffic after lines 69-71
    surface,           \* the column 'Surface totale' of the hubs, as loaded
    surface_totale,    \* air_logis.surface_totale after lines 86-87
    \* ---- score_locations
    score_pc,          \* position in the method
    candidate,         \* argument, by its distances: [droad, dhub, dsta]
    road_network,      \* argument: the parts the iteration yields
    gas_stations,      \* argument
    score,             \* the result
    prev,              \* the previous call on the same network: <<>> or <<[candidate, score]>>
    \* ---- get_best_location
    rank_pc,           \* position in the method
    candidate_locations, \* the candidates, each by its distances
    weighted_scores,   \* the list of that name
    sorted_locations,  \* the result: sequence of [cand, score], cand an index
    \* ---- get_size_station
    size_pc,           \* position in the method
    new_points,        \* argument: the score of each site
    score_total,       \* argument
    demand_total,      \* sum(regions_dem.values())
    capacity_stations, \* conf["capacity_stations"]
    profitability_stations, \* conf["profitability_stations"]
    i_size,            \* the loop variable i of lines 466-476
    station_size,      \* the local of that name, "unbound" before its first assignment
    stations_final     \* the result list

mergeVars == <<merge_pc, top_locations, distance_min, distances, dict_order,
               i_claim, distances_val, polygones, pass, fed>>

netVars == <<net_pc, road_segments, traffic_values, k_seg, segment_with_weight,
             segments, network, net_error>>

objVars == <<obj_pc, data, traffic_only, surface, surface_totale>>

scoreVars == <<score_pc, candidate, road_network, gas_stations, score, prev>>

rankVars == <<rank_pc, candidate_locations, weighted_scores, sorted_locations>>

sizeVars == <<size_pc, new_points, score_total, demand_total, capacity_stations,
              profitability_stations, i_size, station_size, stations_final>>

vars == <<mergeVars, netVars, objVars, scoreVars, rankVars, sizeVars>>

\* The idle value of each group of variables: a specification of one
\* operation keeps the variables of the others there.
MergeIdle ==
    /\ merge_pc = "idle" /\ top_locations = <<>> /\ distance_min = 0
    /\ distances = <<>> /\ dict_order = <<>> /\ i_claim = 0
    /\ distances_val = <<>> /\ polygones = <<>> /\ pass = 0 /\ fed = <<>>

NetIdle ==
    /\ net_pc = "idle" /\ road_segments = <<>> /\ traffic_values = <<>>
    /\ k_seg = 0 /\ segment_with_weight = <<>> /\ segments = <<>>
    /\ network = <<>> /\ net_error = ""

ObjIdle ==
    /\ obj_pc = "idle" /\ data = <<>> /\ traffic_only = <<>>
    /\ surface = <<>> /\ surface_totale = <<>>

ScoreIdle ==
    /\ score_pc = "idle" /\ candidate = <<>> /\ road_network = <<>>
    /\ gas_stations = FALSE /\ score = <<0, 1>> /\ prev = <<>>

RankIdle ==
    /\ rank_pc = "idle" /\ candidate_locations = <<>>
    /\ weighted_scores = <<>> /\ sorted_locations = <<>>

SizeIdle ==
    /\ size_pc = "idle" /\ new_points = <<>> /\ score_total = 0
    /\ demand_total = 0 /\ capacity_stations = <<>>
    /\ profitability_stations = <<>> /\ i_size = 0
    /\ station_size = "unbound" /\ stations_final = <<>>

----------------------------------------------------------------------------
(* Exact rational arithmetic: a number is <<n, d>> with d > 0, reduced.    *)
(* Coordinates, scores and centroids are rationals, so that midpoints and  *)
(* centroids are the numbers the geometry library computes (up to float    *)
(* rounding).                                                              *)

Abs(a) == IF a < 0 THEN -a ELSE a

RECURSIVE GCD(_, _)
GCD(a, b) == IF b = 0 THEN a ELSE GCD(b, a % b)

Rat(n, d) ==
    LET s == IF d < 0 THEN -1 ELSE 1
        g == GCD(Abs(n), Abs(d))
    IN  <<(s * n) \div g, (s * d) \div g>>

RInt(n) == <<n, 1>>
RAdd(a, b) == Rat(a[1] * b[2] + b[1] * a[2], a[2] * b[2])
RSub(a, b) == Rat(a[1] * b[2] - b[1] * a[2], a[2] * b[2])
RMul(a, b) == Rat(a[1] * b[1], a[2] * b[2])
RDiv(a, b) == Rat(a[1] * b[2], a[2] * b[1])
RLeq(a, b) == a[1] * b[2] <= b[1] * a[2]
RAbs(a) == <<Abs(a[1]), a[2]>>
RZero == <<0, 1>>

RECURSIVE RSum(_)
RSum(s) == IF s = <<>> THEN RZero ELSE RAdd(Head(s), RSum(Tail(s)))

\* numpy.mean of a non-empty list
Mean(s) == RDiv(RSum(s), RInt(Len(s)))

RECURSIVE ISqrtB(_, _, _)
ISqrtB(n, lo, hi) ==
    IF lo >= hi THEN lo
    ELSE LET mid == (lo + hi + 1) \div 2
         IN  IF mid * mid <= n THEN ISqrtB(n, mid, hi) ELSE ISqrtB(n, lo, mid - 1)

\* floor of the square root of a natural number below 2^31
ISqrt(n) == ISqrtB(n, 0, 46340)

\* the square root of a rational, to three decimals
RSqrt(a) == Rat(ISqrt(a[1] * a[2] * 1000000), a[2] * 1000)

ToSet(s) == {s[k] : k \in DOMAIN s}

SeqsUpTo(S, n) == UNION {[1..k -> S] : k \in 0..n}

----------------------------------------------------------------------------
(* Planar geometry of the geometry library, on points <<x, y>> with        *)
(* rational coordinates.                                                   *)

PX(p) == p[1]
PY(p) == p[2]

\* the square of Point.distance
Dist2(p, q) ==
    LET dx == RSub(PX(p), PX(q))
        dy == RSub(PY(p), PY(q))
    IN  RAdd(RMul(dx, dx), RMul(dy, dy))

\* p.distance(q) <= d, for an integer d >= 0
WithinDistance(p, q, d) == RLeq(Dist2(p, q), RInt(d * d))

Midpoint(p, q) ==
    <<RDiv(RAdd(PX(p), PX(q)), RInt(2)), RDiv(RAdd(PY(p), PY(q)), RInt(2))>>

Cross(p, q) == RSub(RMul(PX(p), PY(q)), RMul(PX(q), PY(p)))

\* Polygon(values): the shell is the vertex list, closed on its first vertex
Ring(values) == Append(values, values[1])

\* twice the signed area of the ring (the shoelace sum)
Area2(ring) == RSum([k \in 1..(Len(ring) - 1) |-> Cross(ring[k], ring[k + 1])])

\* the area centroid of a ring of non-zero signed area
AreaCentroid(ring) ==
    LET a3 == RMul(RInt(3), Area2(ring))
        sx == RSum([k \in 1..(Len(ring) - 1) |->
                     RMul(RAdd(PX(ring[k]), PX(ring[k + 1])), Cross(ring[k], ring[k + 1]))])
        sy == RSum([k \in 1..(Len(ring) - 1) |->
                     RMul(RAdd(PY(ring[k]), PY(ring[k + 1])), Cross(ring[k], ring[k + 1]))])
    IN  <<RDiv(sx, a3), RDiv(sy, a3)>>

Collinear(ring) ==
    \A k \in DOMAIN ring : \A m \in DOMAIN ring :
        LET u == <<RSub(PX(ring[k]), PX(ring[1])), RSub(PY(ring[k]), PY(ring[1]))>>
            v == <<RSub(PX(ring[m]), PX(ring[1])), RSub(PY(ring[m]), PY(ring[1]))>>
        IN  Cross(u, v) = RZero

\* The length of the segment p q, up to a factor common to all segments of
\* the ring: on one line the lengths are proportional to the extent along
\* an axis, otherwise the Euclidean length (to three decimals).
SegLen(ring, p, q) ==
    IF Collinear(ring)
    THEN IF \A k \in DOMAIN ring : PX(ring[k]) = PX(ring[1])
         THEN RAbs(RSub(PY(p), PY(q)))
         ELSE RAbs(RSub(PX(p), PX(q)))
    ELSE RSqrt(Dist2(p, q))

\* the length-weighted centroid of the segments of a ring of zero area; a
\* ring of zero length is a point
LineCentroid(ring) ==
    LET n   == Len(ring) - 1
        len == [k \in 1..n |-> SegLen(ring, ring[k], ring[k + 1])]
        tot == RSum(len)
        sx  == RSum([k \in 1..n |-> RMul(len[k], PX(Midpoint(ring[k], ring[k + 1])))])
        sy  == RSum([k \in 1..n |-> RMul(len[k], PY(Midpoint(ring[k], ring[k + 1])))])
    IN  IF tot = RZero THEN ring[1] ELSE <<RDiv(sx, tot), RDiv(sy, tot)>>

\* Polygon(values).centroid: area-weighted, else length-weighted, else the point
PolygonCentroid(values) ==
    LET ring == Ring(values)
    IN  IF Area2(ring) # RZero THEN AreaCentroid(ring) ELSE LineCentroid(ring)

----------------------------------------------------------------------------
(* Scenarios.merge_closest_points(top_locations, distance_min)             *)

MaxCand == 3

Points == {<<RInt(0), RInt(-1)>>, <<RInt(0), RInt(0)>>, <<RInt(0), RInt(1)>>,
           <<RInt(2), RInt(-1)>>, <<RInt(2), RInt(1)>>}

Scores == {RInt(1), RInt(3)}

DistanceMins == {0, 1, 2}

\* lines 330-335: distances[i], the coordinates of every j within
\* distance_min of i (i itself included), in the order of j
Neighbours(top, d, i) ==
    LET hit == SelectSeq([j \in 1..Len(top) |-> j],
                         LAMBDA j : WithinDistance(top[i].pt, top[j].pt, d))
    IN  [k \in 1..Len(hit) |-> top[hit[k]].pt]

\* lines 337-340: the keys of the dict rebuilt by sorted(..., reverse=True)
\* on the size of the value: larger sets first, ties in the order of the keys
SortedKeys(dist) ==
    LET n == Len(dist)
        Before(a, b) == \/ Len(dist[a]) > Len(dist[b])
                        \/ Len(dist[a]) = Len(dist[b]) /\ a < b
    IN  [r \in 1..n |->
            CHOOSE k \in 1..n : Cardinality({j \in 1..n : Before(j, k)}) = r - 1]

\* chain(*distances_val.values()): every coordinate claimed so far
Claimed(dval) == UNION {ToSet(dval[k].vals) : k \in DOMAIN dval}

IsDisjointLastOnly(values, dval) ==
    \/ dval = <<>>
    \/ ToSet(values) \cap ToSet(dval[Len(dval)].vals) = {}

\* line 345: set(distances[i]).isdisjoint(set(chain(*distances_val.values())))
IsDisjoint(values, dval) == ToSet(values) \cap Claimed(dval) = {}

RepresentativeFirst(values) == values[1]

\* lines 351-357: the representative point of a cluster
Representative(values) ==
    IF Len(values) = 1 THEN values[1]
    ELSE IF Len(values) = 2 THEN Midpoint(values[1], values[2])
    ELSE PolygonCentroid(values)

\* line 358: the mean score of the candidates whose point is in values
AvgScore(values, top) ==
    LET hit == SelectSeq(top, LAMBDA item : item.pt \in ToSet(values))
    IN  Mean([k \in 1..Len(hit) |-> hit[k].score])

\* lines 349-360: one (point, avg_score, len(values)) per accepted cluster
Polygones(dval, top) ==
    [k \in 1..Len(dval) |->
        [point |-> Representative(dval[k].vals),
         avg_score |-> AvgScore(dval[k].vals, top),
         merge_count |-> Len(dval[k].vals)]]

ReturnOutcomeEmptyRaises(top) == IF top = <<>> THEN "raised" ELSE "returned"

\* line 362: the method has no raise statement: every call returns polygones
ReturnOutcome(top) == "returned"

MergeInit ==
    /\ NetIdle /\ ObjIdle /\ ScoreIdle /\ RankIdle /\ SizeIdle
    /\ merge_pc = "distances"
    /\ top_locations \in SeqsUpTo([pt : Points, score : Scores], MaxCand)
    /\ distance_min \in DistanceMins
    /\ distances = <<>> /\ dict_order = <<>> /\ i_claim = 0
    /\ distances_val = <<>> /\ polygones = <<>> /\ pass = 1 /\ fed = <<>>

\* lines 330-343
BuildDistances ==
    /\ merge_pc = "distances"
    /\ distances' = [i \in 1..Len(top_locations) |->
                        Neighbours(top_locations, distance_min, i)]
    /\ dict_order' = SortedKeys(distances')
    /\ distances_val' = <<>>
    /\ i_claim' = 1
    /\ merge_pc' = "claim"
    /\ UNCHANGED <<top_locations, distance_min, polygones, pass, fed>>
    /\ UNCHANGED <<netVars, objVars, scoreVars, rankVars, sizeVars>>

\* lines 344-347, one iteration: i runs over range(len(distances)) and
\* distances[i] is looked up by key, whatever the order of the dict
ClaimStep ==
    /\ merge_pc = "claim"
    /\ i_claim <= Len(distances)
    /\ distances_val' =
          IF IsDisjoint(distances[i_claim], distances_val)
          THEN Append(distances_val, [key |-> i_claim, vals |-> distances[i_claim]])
          ELSE distances_val
    /\ i_claim' = i_claim + 1
    /\ UNCHANGED <<merge_pc, top_locations, distance_min, distances, dict_order,
                   polygones, pass, fed>>
    /\ UNCHANGED <<netVars, objVars, scoreVars, rankVars, sizeVars>>

\* lines 349-360
BuildPolygones ==
    /\ merge_pc = "claim"
    /\ i_claim > Len(distances)
    /\ polygones' = Polygones(distances_val, top_locations)
    /\ merge_pc' = "polygones"
    /\ UNCHANGED <<top_locations, distance_min, distances, dict_order, i_claim,
                   distances_val, pass, fed>>
    /\ UNCHANGED <<netVars, objVars, scoreVars, rankVars, sizeVars>>

\* line 362
Return ==
    /\ merge_pc = "polygones"
    /\ merge_pc' = ReturnOutcome(top_locations)
    /\ UNCHANGED <<top_locations, distance_min, distances, dict_order, i_claim,
                   distances_val, polygones, pass, fed>>
    /\ UNCHANGED <<netVars, objVars, scoreVars, rankVars, sizeVars>>

\* The caller feeds the representatives and scores of the first result back
\* into merge_closest_points with the same distance_min.
FeedBack ==
    /\ merge_pc = "returned"
    /\ pass = 1
    /\ fed' = polygones
    /\ top_locations' = [k \in 1..Len(polygones) |->
                            [pt |-> polygones[k].point, score |-> polygones[k].avg_score]]
    /\ pass' = 2
    /\ merge_pc' = "distances"
    /\ distances' = <<>> /\ dict_order' = <<>> /\ i_claim' = 0
    /\ distances_val' = <<>> /\ polygones' = <<>>
    /\ UNCHANGED distance_min
    /\ UNCHANGED <<netVars, objVars, scoreVars, rankVars, sizeVars>>

MergeNext ==
    \/ BuildDistances
    \/ ClaimStep
    \/ BuildPolygones
    \/ Return
    \/ FeedBack

SpecMerge == MergeInit /\ [][MergeNext]_vars

----------------------------------------------------------------------------
(* Claims about merge_closest_points                                       *)

FirstCallReturned == pass = 1 /\ merge_pc = "returned"

RECURSIVE SumCounts(_)
SumCounts(p) == IF p = <<>> THEN 0 ELSE Head(p).merge_count + SumCounts(Tail(p))

\* C1 (as claimed): when the first call has returned, every input candidate's
\* coordinates are in the claimed set of exactly one output cluster, and the
\* merge_count values sum to the number of input candidates.
C1_Coverage ==
    FirstCallReturned =>
        /\ \A i \in DOMAIN top_locations :
              Cardinality({k \in DOMAIN distances_val :
                              top_locations[i].pt \in ToSet(distances_val[k].vals)}) = 1
        /\ SumCounts(polygones) = Len(top_locations)

\* C2: at every step of the claim loop and after it, in both calls, the
\* claimed sets of two different accepted clusters share no coordinate.
C2_Disjoint ==
    \A a \in DOMAIN distances_val : \A b \in DOMAIN distances_val :
        a # b => ToSet(distances_val[a].vals) \cap ToSet(distances_val[b].vals) = {}

\* a call that accepted two clusters and rejected a seed that overlapped one
C2_Witness ==
    /\ merge_pc = "returned"
    /\ Len(distances_val) >= 2
    /\ \E i \in DOMAIN top_locations :
          /\ \A k \in DOMAIN distances_val : distances_val[k].key # i
          /\ ~ IsDisjoint(distances[i], distances_val)

SitesOf(p) == {<<p[k].point, p[k].avg_score, p[k].merge_count>> : k \in DOMAIN p}

\* C3 (as claimed): the call fed with the representatives and scores of a
\* first result returns the same points and scores, each with merge_count 1.
C3_Idempotent ==
    (pass = 2 /\ merge_pc = "returned") =>
        /\ Len(polygones) = Len(fed)
        /\ SitesOf(polygones) = {<<fed[k].point, fed[k].avg_score, 1>> : k \in DOMAIN fed}

----------------------------------------------------------------------------
(* Floats: a rational, or NaN, written <<0, 0>>.  A comparison with NaN is *)
(* false and arithmetic on NaN gives NaN.                                  *)

FNaN == <<0, 0>>
IsNaN(a) == a[2] = 0
ROne == <<1, 1>>

FAdd(a, b) == IF IsNaN(a) \/ IsNaN(b) THEN FNaN ELSE RAdd(a, b)
FSub(a, b) == IF IsNaN(a) \/ IsNaN(b) THEN FNaN ELSE RSub(a, b)
FMul(a, b) == IF IsNaN(a) \/ IsNaN(b) THEN FNaN ELSE RMul(a, b)
\* x / 0 is NaN for x = 0 (the only division by zero the model reaches)
FDiv(a, b) == IF IsNaN(a) \/ IsNaN(b) \/ b[1] = 0 THEN FNaN ELSE RDiv(a, b)
FLeq(a, b) == ~ IsNaN(a) /\ ~ IsNaN(b) /\ RLeq(a, b)
FLt(a, b) == ~ IsNaN(a) /\ ~ IsNaN(b) /\ ~ RLeq(b, a)

RECURSIVE FSum(_)
FSum(s) == IF s = <<>> THEN RZero ELSE FAdd(Head(s), FSum(Tail(s)))

\* numpy.mean of a non-empty list of floats
FMean(s) == FDiv(FSum(s), RInt(Len(s)))

\* Series.min() and Series.max() of a non-empty column without NaN
ColMin(col) == CHOOSE x \in ToSet(col) : \A y \in ToSet(col) : RLeq(x, y)
ColMax(col) == CHOOSE x \in ToSet(col) : \A y \in ToSet(col) : RLeq(y, x)

\* lines 70-71 and 86-87: (x - min) / (max - min), element by element; when
\* max = min every element is 0 / 0
MinMax(col) ==
    IF col = <<>> THEN <<>>
    ELSE [k \in DOMAIN col |->
            FDiv(FSub(col[k], ColMin(col)), FSub(ColMax(col), ColMin(col)))]

----------------------------------------------------------------------------
(* Geometries: [kind, weighted, weight, lines].  kind is the library class *)
(* ("LineString", "MultiLineString", or another one such as "Point");      *)
(* weighted says the object is of the subclass WeightedLineString or       *)
(* WeightedMultiLineString; lines are the curves of a multi-curve.         *)

LS == [kind |-> "LineString", weighted |-> FALSE, weight |-> RZero, lines |-> <<>>]

\* lines 25-27: WeightedLineString(coords, weight=w)
WLS(w) == [kind |-> "LineString", weighted |-> TRUE, weight |-> w, lines |-> <<>>]

MLS(ls) == [kind |-> "MultiLineString", weighted |-> FALSE, weight |-> RZero, lines |-> ls]

OtherGeom == [kind |-> "Point", weighted |-> FALSE, weight |-> RZero, lines |-> <<>>]

IsWeightedLineString(g) == g.kind = "LineString" /\ g.weighted
IsLineString(g) == g.kind = "LineString"
IsMultiLineString(g) == g.kind = "MultiLineString"

\* lines 36-40: WeightedMultiLineString.__init__(lines, weights): with
\* weights None every line gets weight 0.0
WMLS(ls, weights) ==
    LET ws == IF weights = <<>> THEN [k \in DOMAIN ls |-> RZero] ELSE weights
    IN  [kind |-> "MultiLineString", weighted |-> TRUE, weight |-> RZero,
         lines |-> [k \in DOMAIN ls |-> WLS(ws[k])]]

\* lines 42-44: the property weights
Weights(g) == [k \in DOMAIN g.lines |-> g.lines[k].weight]

----------------------------------------------------------------------------
(* StationLocator.create_network(road_segments, traffic_values)            *)

MaxSegs == 2

GeomInputs == {LS, WLS(<<1, 2>>), MLS(<<LS>>), MLS(<<LS, WLS(<<1, 2>>)>>), OtherGeom}

TrafficInputs == {RZero, <<4, 5>>}

\* lines 112-118: the curves of a multi-curve, each with a weight
SubSegmentsWithWeight(segment, traffic) ==
    [k \in DOMAIN segment.lines |->
        IF IsWeightedLineString(segment.lines[k]) THEN segment.lines[k] ELSE WLS(traffic)]

\* Lines 107-119: the values segment_with_weight can have after the branch,
\* <<>> for unbound, or "TypeError".  Line 119 passes weight=traffic, which
\* WeightedMultiLineString.__init__ hands on to the library initialiser in
\* **kwargs (line 40) with weights left None: the library either rejects the
\* keyword (TypeError) or ignores it.
BranchOutcomes(current, segment, traffic) ==
    IF IsWeightedLineString(segment) THEN {<<segment>>}
    ELSE IF IsLineString(segment) THEN {<<WLS(traffic)>>}
    ELSE IF IsMultiLineString(segment)
         THEN {"TypeError", <<WMLS(SubSegmentsWithWeight(segment, traffic), <<>>)>>}
    ELSE {current}

\* line 122: the parts of unary_union(segments): the library builds them as
\* plain curves, one per curve of the input (noding and dissolving left out)
RECURSIVE UnionParts(_)
UnionParts(segs) ==
    IF segs = <<>> THEN <<>>
    ELSE (IF IsMultiLineString(Head(segs))
          THEN [k \in DOMAIN Head(segs).lines |-> LS]
          ELSE <<LS>>) \o UnionParts(Tail(segs))

NetInit ==
    /\ MergeIdle /\ ObjIdle /\ ScoreIdle /\ RankIdle /\ SizeIdle
    /\ net_pc = "loop"
    /\ \E n \in 0..MaxSegs :
          /\ road_segments \in [1..n -> GeomInputs]
          /\ traffic_values \in [1..n -> TrafficInputs]
    /\ k_seg = 0 /\ segment_with_weight = <<>> /\ segments = <<>>
    /\ network = <<>> /\ net_error = ""

\* lines 106-120, one iteration of the loop over zip(road_segments, traffic_values)
SegmentStep ==
    /\ net_pc = "loop"
    /\ k_seg < Len(road_segments)
    /\ \E o \in BranchOutcomes(segment_with_weight, road_segments[k_seg + 1],
                               traffic_values[k_seg + 1]) :
          IF o = "TypeError"
          THEN /\ net_pc' = "raised" /\ net_error' = "TypeError"
               /\ UNCHANGED <<segment_with_weight, segments>>
          ELSE IF o = <<>>
          THEN \* line 120 reads a local that was never assigned
               /\ net_pc' = "raised" /\ net_error' = "UnboundLocalError"
               /\ UNCHANGED <<segment_with_weight, segments>>
          ELSE /\ segment_with_weight' = o
               /\ segments' = Append(segments, o[1])
               /\ UNCHANGED <<net_pc, net_error>>
    /\ k_seg' = k_seg + 1
    /\ UNCHANGED <<road_segments, traffic_values, network>>
    /\ UNCHANGED <<mergeVars, objVars, scoreVars, rankVars, sizeVars>>

\* lines 122-123
UnionReturn ==
    /\ net_pc = "loop"
    /\ k_seg = Len(road_segments)
    /\ network' = UnionParts(segments)
    /\ net_pc' = "returned"
    /\ UNCHANGED <<road_segments, traffic_values, k_seg, segment_with_weight,
                   segments, net_error>>
    /\ UNCHANGED <<mergeVars, objVars, scoreVars, rankVars, sizeVars>>

NetNext ==
    \/ SegmentStep
    \/ UnionReturn

SpecNetwork == NetInit /\ [][NetNext]_vars

\* the geometry is a curve or a multi-curve
IsCurve(g) == IsLineString(g) \/ IsMultiLineString(g)

\* C8 (as claimed): a call whose input holds a geometry that is neither a
\* curve nor a multi-curve does not return a network, and nothing is appended
\* to segments for such a geometry, at any position of the input.
C8_InvalidGeometryFails ==
    /\ net_pc = "returned" => \A k \in DOMAIN road_segments : IsCurve(road_segments[k])
    /\ Len(segments) <= Cardinality({k \in 1..k_seg : IsCurve(road_segments[k])})

----------------------------------------------------------------------------
(* StationLocator.score_locations(candidate, road_network, gas_stations)   *)
(* A candidate is given by its distances: droad[k] to the k-th part of the *)
(* network, dhub[k] to the k-th hub, dsta[k] to the k-th station.          *)

max_road == 500
max_distance == 10000
proximity_weight == 2
traffic_weight == 5
aires_weight == 10
station_weight == -2

MaxParts == 1

ScoreParts == {WLS(RZero), WLS(<<4, 5>>), LS,
               MLS(<<WLS(ROne), WLS(RZero)>>), MLS(<<LS>>)}

RoadDists == {0, 250, 251, 500, 501}
HubDists == {0, 5000, 5001, 10000, 10001}
StationDists == {0, 6000, 10001}

\* the columns surface_totale that __init__ leaves for no hub, one hub, and
\* two hubs of different surface
\* The outcome of one step of a loop: [skip, raise, val].
Skip == [skip |-> TRUE, raise |-> FALSE, val |-> RZero]
Raise == [skip |-> FALSE, raise |-> TRUE, val |-> RZero]
Val(v) == [skip |-> FALSE, raise |-> FALSE, val |-> v]

\* lines 158-163 and 166-171: the traffic score of a part before the zone's
\* factor: its weight, the mean weight of its lines (line.weight raises an
\* AttributeError on a line that has none), or continue
TrafficScore(part) ==
    IF IsWeightedLineString(part) THEN Val(part.weight)
    ELSE IF IsMultiLineString(part)
         THEN IF \A k \in DOMAIN part.lines : part.lines[k].weighted
              THEN Val(FMean(Weights(part)))
              ELSE Raise
    ELSE Skip

FarZoneStrict(d, max) == 2 * d > max /\ d < max

\* lines 156, 181, 197: distance <= max / 2
NearZone(d, max) == 2 * d <= max

\* lines 164, 184, 199: elif distance <= max
FarZone(d, max) == ~ NearZone(d, max) /\ d <= max

RoadTermFarDoubled(part, d) ==
    LET t == TrafficScore(part)
    IN  IF NearZone(d, max_road)
        THEN IF t.skip \/ t.raise THEN t
             ELSE Val(FAdd(FMul(RInt(proximity_weight), Rat(max_road - d, max_road)),
                           FMul(t.val, RInt(traffic_weight))))
        ELSE IF FarZone(d, max_road)
        THEN IF t.skip \/ t.raise THEN t
             ELSE Val(FAdd(FMul(RInt(proximity_weight),
                                FMul(Rat(max_road - d, max_road), RInt(2))),
                           FMul(FMul(t.val, RInt(2)), RInt(traffic_weight))))
        ELSE Skip

\* lines 153-174: what one part of the network adds to score
RoadTerm(part, d) ==
    LET t == TrafficScore(part)
    IN  IF NearZone(d, max_road)
        THEN IF t.skip \/ t.raise THEN t
             ELSE Val(FAdd(FMul(RInt(proximity_weight), Rat(max_road - d, max_road)),
                           FMul(t.val, RInt(traffic_weight))))
        ELSE IF FarZone(d, max_road)
        THEN IF t.skip \/ t.raise THEN t
             ELSE Val(FAdd(FMul(RInt(proximity_weight),
                                FDiv(Rat(max_road - d, max_road), RInt(2))),
                           FMul(FDiv(t.val, RInt(2)), RInt(traffic_weight))))
        ELSE Skip

\* lines 178-189: what one hub adds to score
HubTerm(cap, d) ==
    IF NearZone(d, max_distance)
    THEN Val(FMul(FAdd(Rat(max_distance - d, max_distance), cap), RInt(aires_weight)))
    ELSE IF FarZone(d, max_distance)
    THEN Val(FMul(FAdd(FDiv(Rat(max_distance - d, max_distance), RInt(2)),
                       FDiv(cap, RInt(2))),
                  RInt(aires_weight)))
    ELSE Skip

\* lines 194-203: what one station adds to score
StationTerm(d) ==
    IF NearZone(d, max_distance)
    THEN Val(FMul(Rat(max_distance - d, max_distance), RInt(station_weight)))
    ELSE IF FarZone(d, max_distance)
    THEN Val(FMul(FDiv(Rat(max_distance - d, max_distance), RInt(2)), RInt(station_weight)))
    ELSE Skip

\* score += term, for the terms of a loop in order; a raise ends the call
RECURSIVE Accumulate(_, _)
Accumulate(acc, terms) ==
    IF terms = <<>> \/ acc.raise THEN acc
    ELSE LET t == Head(terms)
         IN  IF t.raise THEN Raise
             ELSE Accumulate(IF t.skip THEN acc ELSE Val(FAdd(acc.val, t.val)), Tail(terms))

\* lines 149-205: the whole method: [raise, val]
ScoreLocations(cand, net, caps, gas) ==
    LET roads == Accumulate(Val(RZero),
                     [k \in DOMAIN net |-> RoadTerm(net[k], cand.droad[k])])
        hubs  == Accumulate(roads,
                     [k \in DOMAIN caps |-> HubTerm(caps[k], cand.dhub[k])])
    IN  IF gas
        THEN Accumulate(hubs, [k \in DOMAIN cand.dsta |-> StationTerm(cand.dsta[k])])
        ELSE hubs


\* the candidates of a call, by their distances
Profiles(np, nh, gas) ==
    [droad : [1..np -> RoadDists], dhub : [1..nh -> HubDists],
     dsta : IF gas THEN [1..1 -> StationDists] ELSE {<<>>}]

\* the candidates that differ from c in one distance to a part or to a hub
Moved(c) ==
    ({[c EXCEPT !.droad[k] = d] : k \in DOMAIN c.droad, d \in RoadDists}
     \cup {[c EXCEPT !.dhub[k] = d] : k \in DOMAIN c.dhub, d \in HubDists}) \ {c}

\* The object after __init__ (its hubs), and a first call.
ScoreInit ==
    /\ MergeIdle /\ NetIdle /\ RankIdle /\ SizeIdle
    /\ obj_pc = "constructed" /\ data = <<>> /\ traffic_only = <<>>
    /\ surface \in {<<>>, <<RInt(3)>>, <<RInt(1), RInt(3)>>}
    /\ surface_totale = MinMax(surface)
    /\ road_network \in SeqsUpTo(ScoreParts, MaxParts)
    /\ gas_stations \in BOOLEAN
    /\ candidate \in Profiles(Len(road_network), Len(surface_totale), gas_stations)
    /\ score_pc = "call" /\ score = RZero /\ prev = <<>>

\* lines 141-205: the call returns the score, or a part raises
ScoreCall ==
    /\ score_pc = "call"
    /\ LET r == ScoreLocations(candidate, road_network, surface_totale, gas_stations)
       IN  IF r.raise
           THEN score_pc' = "raised" /\ score' = score
           ELSE score_pc' = "returned" /\ score' = r.val
    /\ UNCHANGED <<candidate, road_network, gas_stations, prev>>
    /\ UNCHANGED <<mergeVars, netVars, objVars, rankVars, sizeVars>>

\* The caller scores a second candidate against the same network and hubs.
NextCandidate ==
    /\ score_pc = "returned"
    /\ prev = <<>>
    /\ ~ gas_stations
    /\ prev' = <<[candidate |-> candidate, score |-> score]>>
    /\ candidate' \in Moved(candidate)
    /\ score_pc' = "call"
    /\ UNCHANGED <<road_network, gas_stations, score>>
    /\ UNCHANGED <<mergeVars, netVars, objVars, rankVars, sizeVars>>

ScoreNext ==
    \/ ScoreCall
    \/ NextCandidate

SpecScore == ScoreInit /\ [][ScoreNext]_vars

----------------------------------------------------------------------------
(* Claims about score_locations                                            *)

\* a returned call on a network of one weighted part at exactly max_road,
\* with no hub within max_distance and no facility penalty
AtMaxRoadOnly ==
    /\ score_pc = "returned"
    /\ Len(road_network) = 1
    /\ ~ TrafficScore(road_network[1]).skip
    /\ candidate.droad[1] = max_road
    /\ \A k \in DOMAIN candidate.dhub : candidate.dhub[k] > max_distance
    /\ ~ gas_stations

\* C4 (as claimed): a candidate exactly max_road from a weighted part gets a
\* zero road/traffic contribution from it, whatever the weight: alone, the
\* part gives score 0.
C4_BoundaryZero == AtMaxRoadOnly => score = RZero

\* C4 (amended): a candidate exactly max_road from a weighted part is in the
\* far zone: the proximity contribution is 0 and the traffic contribution is
\* traffic_weight x weight / 2, so alone the part gives score 5 x weight / 2.
C4_BoundaryHalfTraffic ==
    AtMaxRoadOnly =>
        score = RDiv(RMul(RInt(traffic_weight),
                          IF IsWeightedLineString(road_network[1])
                          THEN road_network[1].weight
                          ELSE Mean(Weights(road_network[1]))),
                     RInt(2))

\* one segment of weight 0.8 at distance 500: the score is 2
C4_Witness ==
    /\ AtMaxRoadOnly
    /\ road_network[1] = WLS(<<4, 5>>)
    /\ surface_totale = <<>>
    /\ score = RInt(2)

\* b is nowhere nearer than a, to any part and to any hub
NoNearer(a, b) ==
    /\ \A k \in DOMAIN a.droad : a.droad[k] <= b.droad[k]
    /\ \A k \in DOMAIN a.dhub : a.dhub[k] <= b.dhub[k]

\* C5: with the facility penalty disabled and capacities in [0, 1], a second
\* candidate that differs from the first in one distance, to a part or to a
\* hub, and is farther there, never scores more than the first.
C5_Monotone ==
    (/\ score_pc = "returned"
     /\ prev # <<>>
     /\ ~ gas_stations
     /\ \A k \in DOMAIN surface_totale : ~ IsNaN(surface_totale[k])
     /\ NoNearer(prev[1].candidate, candidate))
    => FLeq(score, prev[1].score)

\* a weighted segment seen from 250 (near zone) and then from 251 (far zone),
\* and a hub seen from 10000 (far zone) and then from 10001 (out of reach)
C5_Witness ==
    /\ score_pc = "returned"
    /\ prev # <<>>
    /\ ~ gas_stations
    /\ \/ /\ Len(road_network) = 1
          /\ road_network[1] = WLS(<<4, 5>>)
          /\ prev[1].candidate.droad[1] = 250
          /\ candidate.droad[1] = 251
          /\ FLt(score, prev[1].score)
       \/ /\ surface_totale = <<RZero, ROne>>
          /\ prev[1].candidate.dhub[2] = 10000
          /\ candidate.dhub[2] = 10001
          /\ FLt(score, prev[1].score)

----------------------------------------------------------------------------
(* StationLocator.__init__                                                 *)

MaxRows == 2
MaxHubs == 2

TMJAs == {1000, 2000}
RatioPLs == {10, 200}
Surfaces == {RInt(1), RInt(3)}

\* line 67: a ratio_PL above 40 is divided by 10
CleanRatio(ratio) == IF ratio > 40 THEN Rat(ratio, 10) ELSE RInt(ratio)

\* lines 67-69: PL_traffic = TMJA * (ratio_PL / 100), row by row
PLTraffic(rows) ==
    [k \in DOMAIN rows |->
        RMul(RInt(rows[k].TMJA), RDiv(CleanRatio(rows[k].ratio_PL), RInt(100)))]

ObjInit ==
    /\ MergeIdle /\ NetIdle /\ ScoreIdle /\ RankIdle /\ SizeIdle
    /\ obj_pc = "new"
    /\ \E n \in 1..MaxRows : data \in [1..n -> [TMJA : TMJAs, ratio_PL : RatioPLs]]
    /\ \E n \in 1..MaxHubs : surface \in [1..n -> Surfaces]
    /\ traffic_only = <<>> /\ surface_totale = <<>>

\* lines 64-73: the traffic column, normalised
LoadTraffic ==
    /\ obj_pc = "new"
    /\ traffic_only' = MinMax(PLTraffic(data))
    /\ obj_pc' = "traffic"
    /\ UNCHANGED <<data, surface, surface_totale>>
    /\ UNCHANGED <<mergeVars, netVars, scoreVars, rankVars, sizeVars>>

\* lines 75-91: the hub column, normalised; __init__ returns
LoadHubs ==
    /\ obj_pc = "traffic"
    /\ surface_totale' = MinMax(surface)
    /\ obj_pc' = "constructed"
    /\ UNCHANGED <<data, traffic_only, surface>>
    /\ UNCHANGED <<mergeVars, netVars, scoreVars, rankVars, sizeVars>>

ObjNext ==
    \/ LoadTraffic
    \/ LoadHubs

SpecInit == ObjInit /\ [][ObjNext]_vars

\* every value of the column is the same
Degenerate(col) == \A a \in DOMAIN col : \A b \in DOMAIN col : col[a] = col[b]

\* C10 (as claimed): when every value of a population is equal the
\* normalisation does not complete: no column is left with an undefined
\* weight, and __init__ does not return an object built from such a population.
C10_DegenerateSurfaced ==
    /\ \A k \in DOMAIN traffic_only : ~ IsNaN(traffic_only[k])
    /\ \A k \in DOMAIN surface_totale : ~ IsNaN(surface_totale[k])
    /\ obj_pc = "constructed" =>
          (~ Degenerate(PLTraffic(data)) /\ ~ Degenerate(surface))

----------------------------------------------------------------------------
(* get_best_location                                                       *)

MaxGrid == 3

\* sorted(): the list sort of CPython on fewer than 64 entries -- one natural
\* run, then binary insertion -- using only the comparison "<" of the keys.
\* s is a sequence of positions, keys the key of each position.
KeyLt(keys, a, b) == FLt(keys[a], keys[b])

Reverse(s) == [k \in 1..Len(s) |-> s[Len(s) + 1 - k]]

RECURSIVE ExtendDesc(_, _, _)
ExtendDesc(keys, s, n) ==
    IF n < Len(s) /\ KeyLt(keys, s[n + 1], s[n])
    THEN ExtendDesc(keys, s, n + 1) ELSE n

RECURSIVE ExtendAsc(_, _, _)
ExtendAsc(keys, s, n) ==
    IF n < Len(s) /\ ~ KeyLt(keys, s[n + 1], s[n])
    THEN ExtendAsc(keys, s, n + 1) ELSE n

\* count_run: the leading run, a strictly descending one reversed in place
CountRun(keys, s) ==
    IF Len(s) <= 1 THEN [n |-> Len(s), s |-> s]
    ELSE IF KeyLt(keys, s[2], s[1])
         THEN LET n == ExtendDesc(keys, s, 2)
              IN  [n |-> n, s |-> Reverse(SubSeq(s, 1, n)) \o SubSeq(s, n + 1, Len(s))]
         ELSE [n |-> ExtendAsc(keys, s, 2), s |-> s]

\* the insertion point of pivot in the sorted prefix, by bisection of (l, r]
RECURSIVE Bisect(_, _, _, _, _)
Bisect(keys, sorted, pivot, l, r) ==
    IF l >= r THEN l
    ELSE LET p == l + ((r - l) \div 2)
         IN  IF KeyLt(keys, pivot, sorted[p + 1])
             THEN Bisect(keys, sorted, pivot, l, p)
             ELSE Bisect(keys, sorted, pivot, p + 1, r)

RECURSIVE BinarySort(_, _, _)
BinarySort(keys, sorted, rest) ==
    IF rest = <<>> THEN sorted
    ELSE LET l == Bisect(keys, sorted, Head(rest), 0, Len(sorted))
         IN  BinarySort(keys,
                        SubSeq(sorted, 1, l) \o <<Head(rest)>>
                            \o SubSeq(sorted, l + 1, Len(sorted)),
                        Tail(rest))

ListSort(keys, s) ==
    LET run == CountRun(keys, s)
    IN  BinarySort(keys, SubSeq(run.s, 1, run.n), SubSeq(run.s, run.n + 1, Len(s)))

\* sorted(..., reverse=True): reversed, sorted ascending, reversed again
SortedReverse(keys) == Reverse(ListSort(keys, Reverse([k \in DOMAIN keys |-> k])))

SortedLocationsAscending(cands, scores) ==
    LET order == ListSort(scores, [k \in DOMAIN scores |-> k])
    IN  [k \in DOMAIN order |-> [location |-> order[k], score |-> scores[order[k]]]]

\* lines 238-239: the candidates zipped with their scores, best first
SortedLocations(cands, scores) ==
    LET order == SortedReverse(scores)
    IN  [k \in DOMAIN order |-> [location |-> order[k], score |-> scores[order[k]]]]


\* two rows with distinct curves, so that the union of line 122 is a
\* multi-curve that the loop of line 152 can iterate
RankData == {<<[TMJA |-> 1000, ratio_PL |-> 10], [TMJA |-> 1000, ratio_PL |-> 10]>>,
             <<[TMJA |-> 1000, ratio_PL |-> 10], [TMJA |-> 2000, ratio_PL |-> 10]>>}
RankSurfaces == {<<>>, <<RInt(3)>>, <<RInt(1), RInt(3)>>}
GridRoadDists == {0, 501}
GridHubDists == {0, 10001}

\* the points of the grid, by their distances to the parts and to the hubs
GridProfiles(np, nh) ==
    [droad : [1..np -> GridRoadDists], dhub : [1..nh -> GridHubDists], dsta : {<<>>}]

\* line 221 on the exploded rows of line 65: every segment a LineString, so
\* each is wrapped with its traffic (line 110) and the union is of plain parts
NetworkOfLines(traffic) ==
    UnionParts([k \in DOMAIN traffic |->
                   (CHOOSE o \in BranchOutcomes(<<>>, LS, traffic[k]) : TRUE)[1]])

\* The object after __init__, and a call of get_best_location on its grid.
RankInit ==
    /\ MergeIdle /\ NetIdle /\ ScoreIdle /\ SizeIdle
    /\ obj_pc = "constructed"
    /\ data \in RankData /\ surface \in RankSurfaces
    /\ traffic_only = MinMax(PLTraffic(data))
    /\ surface_totale = MinMax(surface)
    /\ candidate_locations \in SeqsUpTo(GridProfiles(Len(data), Len(surface)), MaxGrid)
    /\ rank_pc = "call" /\ weighted_scores = <<>> /\ sorted_locations = <<>>

\* lines 221-236: the network, the candidates, the score of each
ScoreCandidates ==
    /\ rank_pc = "call"
    /\ LET net == NetworkOfLines(traffic_only)
           r == [k \in DOMAIN candidate_locations |->
                    ScoreLocations(candidate_locations[k], net, surface_totale, FALSE)]
       IN  IF \E k \in DOMAIN r : r[k].raise
           THEN rank_pc' = "raised" /\ weighted_scores' = weighted_scores
           ELSE /\ rank_pc' = "scored"
                /\ weighted_scores' = [k \in DOMAIN r |-> r[k].val]
    /\ UNCHANGED <<candidate_locations, sorted_locations>>
    /\ UNCHANGED <<mergeVars, netVars, objVars, scoreVars, sizeVars>>

\* lines 238-239
SortReturn ==
    /\ rank_pc = "scored"
    /\ sorted_locations' = SortedLocations(candidate_locations, weighted_scores)
    /\ rank_pc' = "returned"
    /\ UNCHANGED <<candidate_locations, weighted_scores>>
    /\ UNCHANGED <<mergeVars, netVars, objVars, scoreVars, sizeVars>>

RankNext ==
    \/ ScoreCandidates
    \/ SortReturn

SpecRank == RankInit /\ [][RankNext]_vars

----------------------------------------------------------------------------
(* get_size_station                                                        *)

MaxSites == 3

SiteScores == {RInt(1), RInt(3), RInt(5)}
ScoreTotals == {1, 9}
DemandTotals == {9}
CapacityTables == {<<1, 2, 4>>, <<2, 4, 8>>}
ProfitabilityTables == {<<ROne, ROne, ROne>>, <<Rat(1, 2), Rat(1, 2), Rat(1, 2)>>}

\* lines 455-464: index of a tier in the two tables
TierIndex(t) == CASE t = "small" -> 1 [] t = "medium" -> 2 [] t = "large" -> 3

\* profitability_dict[t] * capacity_dict[t]
Threshold(t) ==
    FMul(profitability_stations[TierIndex(t)], RInt(capacity_stations[TierIndex(t)]))

\* line 467
Demand(s) == FMul(FDiv(s, RInt(score_total)), RInt(demand_total))

\* lines 468-473: the chain has no else, station_size keeps its value when
\* no threshold is exceeded
AssignSize(current, demand) ==
    IF FLt(Threshold("large"), demand) THEN "large"
    ELSE IF FLt(Threshold("medium"), demand) THEN "medium"
    ELSE IF FLt(Threshold("small"), demand) THEN "small"
    ELSE current

SizeInit ==
    /\ MergeIdle /\ NetIdle /\ ObjIdle /\ ScoreIdle /\ RankIdle
    /\ size_pc = "loop"
    /\ new_points \in SeqsUpTo(SiteScores, MaxSites)
    /\ score_total \in ScoreTotals /\ demand_total \in DemandTotals
    /\ capacity_stations \in CapacityTables
    /\ profitability_stations \in ProfitabilityTables
    /\ i_size = 0 /\ station_size = "unbound" /\ stations_final = <<>>

\* lines 466-476, one iteration
SizeStep ==
    /\ size_pc = "loop"
    /\ i_size < Len(new_points)
    /\ LET s == new_points[i_size + 1]
           demand == Demand(s)
           size == AssignSize(station_size, demand)
       IN  IF size = "unbound"
           THEN \* line 475 reads a local that was never assigned
                /\ size_pc' = "raised"
                /\ UNCHANGED <<i_size, station_size, stations_final>>
           ELSE /\ station_size' = size
                /\ stations_final' = Append(stations_final,
                       [site |-> i_size + 1, size |-> size, score |-> s, demand |-> demand])
                /\ i_size' = i_size + 1
                /\ UNCHANGED size_pc
    /\ UNCHANGED <<new_points, score_total, demand_total, capacity_stations,
                   profitability_stations>>
    /\ UNCHANGED <<mergeVars, netVars, objVars, scoreVars, rankVars>>

\* line 477
SizeReturn ==
    /\ size_pc = "loop"
    /\ i_size = Len(new_points)
    /\ size_pc' = "returned"
    /\ UNCHANGED <<new_points, score_total, demand_total, capacity_stations,
                   profitability_stations, i_size, station_size, stations_final>>
    /\ UNCHANGED <<mergeVars, netVars, objVars, scoreVars, rankVars>>

SizeNext ==
    \/ SizeStep
    \/ SizeReturn

SpecSize == SizeInit /\ [][SizeNext]_vars

\* C6 (as claimed): within one call, a site whose estimated demand is not
\* above another's is never given a higher tier than the other, in the order
\* small < medium < large.
C6_TierMonotone ==
    \A a \in DOMAIN stations_final : \A b \in DOMAIN stations_final :
        FLeq(stations_final[a].demand, stations_final[b].demand)
            => TierIndex(stations_final[a].size) <= TierIndex(stations_final[b].size)

----------------------------------------------------------------------------
(* Further claims about merge_closest_points                               *)

\* a returned call on exactly two candidates at distinct coordinates that
\* are within distance_min of each other
TwoClosePoints ==
    /\ merge_pc = "returned"
    /\ Len(top_locations) = 2
    /\ top_locations[1].pt # top_locations[2].pt
    /\ WithinDistance(top_locations[1].pt, top_locations[2].pt, distance_min)

\* C11: two candidates at distinct coordinates within distance_min of each
\* other give exactly one site, with merge_count 2, at the midpoint of the
\* two points, with the mean of the two scores.
C11_TwoPointMerge ==
    TwoClosePoints =>
        LET a == top_locations[1]
            b == top_locations[2]
        IN  /\ Len(polygones) = 1
            /\ polygones[1].merge_count = 2
            /\ polygones[1].point =
                  <<RDiv(RAdd(PX(a.pt), PX(b.pt)), RInt(2)),
                    RDiv(RAdd(PY(a.pt), PY(b.pt)), RInt(2))>>
            /\ polygones[1].avg_score = RDiv(RAdd(a.score, b.score), RInt(2))

\* (0,0) with score 1 and (0,1) with score 3, distance_min 1: one site at
\* (0, 1/2) with score 2
C11_Witness ==
    /\ TwoClosePoints
    /\ pass = 1
    /\ top_locations = <<[pt |-> <<RInt(0), RInt(0)>>, score |-> RInt(1)],
                         [pt |-> <<RInt(0), RInt(1)>>, score |-> RInt(3)]>>
    /\ distance_min = 1
    /\ polygones = <<[point |-> <<RInt(0), Rat(1, 2)>>, avg_score |-> RInt(2),
                      merge_count |-> 2]>>


\* seed i was accepted by the claim loop
Accepted(i) == \E k \in DOMAIN distances_val : distances_val[k].key = i

\* the only accepted cluster that shares a coordinate with the proximity set
\* of seed i is the cluster of seed j
PreventedBy(i, j) ==
    /\ ~ Accepted(i)
    /\ Accepted(j)
    /\ ToSet(distances[i]) \cap ToSet(distances[j]) # {}
    /\ \A k \in DOMAIN distances_val :
          distances_val[k].key # j =>
              ToSet(distances[i]) \cap ToSet(distances_val[k].vals) = {}

\* C12 (as claimed): seeds are taken in descending order of the size of the
\* proximity set: after the claim loop, no seed is kept out only by the
\* cluster of a seed whose overlapping proximity set is strictly smaller,
\* wherever the two stand in the input list.
C12_LargerSeedFirst ==
    merge_pc \in {"polygones", "returned"} =>
        \A i \in DOMAIN distances : \A j \in DOMAIN distances :
            Len(distances[i]) > Len(distances[j]) => ~ PreventedBy(i, j)

----------------------------------------------------------------------------
(* Further claims about score_locations                                    *)

\* a returned call on a network of one part in the near zone, with no hub
\* within max_distance and no facility penalty
NearPartOnly ==
    /\ score_pc = "returned"
    /\ Len(road_network) = 1
    /\ NearZone(candidate.droad[1], max_road)
    /\ \A k \in DOMAIN candidate.dhub : candidate.dhub[k] > max_distance
    /\ ~ gas_stations

\* C13 (as claimed): a part of any variant at distance d <= max_road / 2 adds
\* proximity_weight x (max_road - d) / max_road + traffic_weight x weight to
\* the score: alone, a part with a weight gives exactly that score, and a
\* plain curve gives at least the proximity term.
C13_NearPartAdds ==
    NearPartOnly =>
        LET part == road_network[1]
            prox == FMul(RInt(proximity_weight),
                         Rat(max_road - candidate.droad[1], max_road))
        IN  IF IsWeightedLineString(part)
            THEN score = FAdd(prox, FMul(RInt(traffic_weight), part.weight))
            ELSE IF IsMultiLineString(part)
            THEN score = FAdd(prox, FMul(RInt(traffic_weight), FMean(Weights(part))))
            ELSE FLeq(prox, score)

----------------------------------------------------------------------------
(* Further claims about create_network                                     *)

\* C14 (as claimed): an input multi-curve paired with traffic value w is
\* appended to segments as a WeightedMultiLineString whose weights property
\* is w repeated once per sub-curve.
C14_SubCurvesCarryTraffic ==
    \A k \in 1..k_seg :
        IsMultiLineString(road_segments[k]) =>
            /\ k <= Len(segments)
            /\ IsMultiLineString(segments[k]) /\ segments[k].weighted
            /\ Weights(segments[k]) =
                  [j \in DOMAIN road_segments[k].lines |-> traffic_values[k]]

----------------------------------------------------------------------------
(* Further claims about get_size_station                                   *)

\* the demand is above none of the three thresholds
BelowThresholds(demand) ==
    \A t \in {"small", "medium", "large"} : ~ FLt(Threshold(t), demand)

\* C15 (as claimed): a site whose estimated demand is above none of the
\* large, medium and small thresholds never appears in the output with one
\* of the tiers small, medium, large, whatever sites precede it.
C15_BelowThresholdUnassigned ==
    \A a \in DOMAIN stations_final :
        BelowThresholds(stations_final[a].demand)
            => stations_final[a].size \notin {"small", "medium", "large"}

====
